---- MODULE Spec2Model ----
(***************************************************************************)
(* Model of the embryo grading scripts:                                    *)
(*   improve_with_feedback.py  FeedbackAnalyzer (load, analyze, synthesize)*)
(*   grade_embryos.py          EmbryoGrader (grade_embryo, grade_directory)*)
(*                             ImprovedGrader (regrade_embryos)            *)
(*   extract_images.py         extract_images_from_html                    *)
(* Python str values are TLA+ strings; dicts are functions from keys to    *)
(* values; lists are sequences.                                            *)
(***************************************************************************)
EXTENDS Integers, Sequences, FiniteSets, TLC

VARIABLES
    feedback_file,      \* the CSV file on disk given to load_feedback
    feedback_data,      \* FeedbackAnalyzer.feedback_data
    discrepancies,      \* FeedbackAnalyzer.discrepancies
    agreement_stats,    \* FeedbackAnalyzer.agreement_stats
    fa_pc,              \* "idle" or "analyzing" (inside analyze_feedback's loop)
    fa_idx,             \* position of analyze_feedback's loop (1-based)
    fa_exc,             \* exception raised by the last analyzer call, "" if none
    fa_calls,           \* number of analyze_feedback calls started
    buckets,            \* the four lists built by the last generate_improved_prompt
    improved_prompt,    \* value returned by the last generate_improved_prompt
    printed,            \* the percentages analyze_feedback printed last (in tenths)
    report,             \* the report save_analysis_report wrote last
    GARDNER_SCALE_PROMPT, \* grade_embryos.GARDNER_SCALE_PROMPT (module global)
    results,            \* EmbryoGrader.results
    image_files,        \* grade_directory's local list of files of this pass
    world,              \* what reading / the remote service did for each file of this pass
    requests,           \* requests received by the remote service in this pass
    gd_pc,              \* "idle" or "grading" (inside grade_directory's loop)
    gd_idx,             \* position of grade_directory's loop (1-based)
    gd_exc,             \* exception propagated out of grade_directory, "" if none
    gd_returned,        \* the last grade_directory call: whether it has returned, and what
    ig_improved_prompt, \* ImprovedGrader.improved_prompt, None before there is an ImprovedGrader
    original_prompt,    \* regrade_embryos' local original_prompt
    rg_pc,              \* "idle" or "regrading" (inside regrade_embryos)
    html_content,       \* extract_images_from_html: the text read from html_file
    matches,            \* extract_images_from_html: the base64 payloads found
    filenames,          \* extract_images_from_html: the file names found
    unique_filenames,   \* extract_images_from_html: the names after the duplicates are removed
    saved_count,        \* extract_images_from_html: saved_count
    output_dir,         \* the files of output_dir: name -> bytes
    saved,              \* what became of each payload handled so far
    ex_pc,              \* "idle", "saving" (inside the loop), "returned" or "raised"
    ex_i,               \* the loop's i (0-based)
    ex_returned         \* the value extract_images_from_html returned

fa_vars == <<feedback_file, feedback_data, discrepancies, agreement_stats,
             fa_pc, fa_idx, fa_exc, fa_calls, buckets, improved_prompt>>
rp_vars == <<printed, report>>
gd_vars == <<GARDNER_SCALE_PROMPT, results, image_files, world, requests,
             gd_pc, gd_idx, gd_exc, gd_returned>>
rg_vars == <<ig_improved_prompt, original_prompt, rg_pc>>
ex_vars == <<html_content, matches, filenames, unique_filenames, saved_count,
             output_dir, saved, ex_pc, ex_i, ex_returned>>
vars == <<fa_vars, rp_vars, gd_vars, rg_vars, ex_vars>>

(***************************************************************************)
(* Bounds of the model.                                                    *)
(***************************************************************************)
\* rows of a feedback file
MaxRows == 2
\* analyze_feedback calls on one analyzer
MaxCalls == 2
\* entries of a graded directory
MaxFiles == 2
\* embedded images of an HTML report
MaxImages == 3
\* file names listed in an HTML report
MaxNames == 2

(***************************************************************************)
(* Python str operations.                                                  *)
(***************************************************************************)
\* Python's None (also csv.DictReader's restkey and restval)
None == "<None>"

UpperChars == "ABCDEFGHIJKLMNOPQRSTUVWXYZ"
LowerChars == "abcdefghijklmnopqrstuvwxyz"

CharAt(s, i) == SubSeq(s, i, i)

\* the characters str.lower() changes, and what it makes of each
UpperSet == {CharAt(UpperChars, i) : i \in 1..Len(UpperChars)}
LowerOf ==
    [c \in UpperSet |->
        CharAt(LowerChars, CHOOSE i \in 1..Len(UpperChars) : CharAt(UpperChars, i) = c)]

\* str.lower() on one character
LowerChar(c) == IF c \in UpperSet THEN LowerOf[c] ELSE c

\* str.lower()
RECURSIVE Lower(_)
Lower(s) ==
    IF s = "" THEN ""
    ELSE LowerChar(CharAt(s, 1)) \o Lower(SubSeq(s, 2, Len(s)))

\* Python's `sub in s`
In(sub, s) ==
    \E i \in 1..(Len(s) - Len(sub) + 1) : SubSeq(s, i, i + Len(sub) - 1) = sub

\* Python's sep.join(parts)
RECURSIVE Join(_, _)
Join(sep, parts) ==
    IF parts = <<>> THEN ""
    ELSE IF Len(parts) = 1 THEN parts[1]
    ELSE parts[1] \o sep \o Join(sep, Tail(parts))

\* dict.get(key, default)
Get(d, key, default) == IF key \in DOMAIN d THEN d[key] ELSE default

(***************************************************************************)
(* Feedback files.                                                         *)
(***************************************************************************)
\* the documented columns of a feedback file
Columns == <<"image_name", "ai_grade", "expert_grade", "agreement", "expert_comments">>

\* header rows of the sample files: all columns, or without the last two
Headers == {SubSeq(Columns, 1, n) : n \in {3, 5}}

\* data rows of the sample files (cells in file order); two rows are short
SampleRows ==
    { <<"D5_1.jpg", "4AA", "4AA", "Yes", "">>,
      <<"D5_2.jpg", "4AA", "3AA", "Partial", "Expansion should be 3 not 4">>,
      <<"D5_3.jpg", "4AB", "4AC", "No", "trophectoderm gaps">>,
      <<"D3_4.jpg", "3AA", "N/A", "NO", "not a blastocyst, wrong stage">>,
      <<"D5_5.jpg", "4AA", "4BA", "Disagree", "ICM too loose">>,
      <<"D5_6.jpg", "4AA", "3AA">>,
      <<"D5_7.jpg", "4AA", "4BA", "", "Inner cell mass unclear">>,
      <<"D5_8.jpg", "4AA", "4AA", "AGREE", "">>,
      <<"D5_9.jpg", "4AA", "3AA", "No">> }

RowLists == UNION {[1..n -> SampleRows] : n \in 0..MaxRows}

NoFile == [exists |-> FALSE, fieldnames |-> <<>>, rows |-> <<>>]

Files ==
    {NoFile} \cup
    {[exists |-> TRUE, fieldnames |-> h, rows |-> rs] : h \in Headers, rs \in RowLists}

\* csv.DictReader: one row as a dict keyed by the header's field names; a short
\* row gets restval (None) for the missing fields, a long row's extra cells go
\* under restkey (None)
DictReaderRow(fieldnames, row) ==
    LET named == [k \in {fieldnames[i] : i \in 1..Len(fieldnames)} |->
                    LET i == CHOOSE j \in 1..Len(fieldnames) : fieldnames[j] = k
                    IN  IF i <= Len(row) THEN row[i] ELSE None]
    IN  IF Len(row) > Len(fieldnames)
        THEN named @@ (None :> SubSeq(row, Len(fieldnames) + 1, Len(row)))
        ELSE named

(***************************************************************************)
(* FeedbackAnalyzer                                                        *)
(***************************************************************************)
NoBuckets ==
    [stage_misidentification |-> <<>>, expansion_errors |-> <<>>,
     icm_errors |-> <<>>, te_errors |-> <<>>]

\* FeedbackAnalyzer.__init__
\* no report written yet
NoReport == [written |-> FALSE]

FeedbackAnalyzerInit ==
    /\ feedback_file \in Files
    /\ feedback_data = <<>>
    /\ discrepancies = <<>>
    /\ agreement_stats = [total |-> 0, agree |-> 0, partial |-> 0, disagree |-> 0]
    /\ fa_pc = "idle"
    /\ fa_idx = 0
    /\ fa_exc = ""
    /\ fa_calls = 0
    /\ buckets = NoBuckets
    /\ improved_prompt = None
    /\ printed = <<>>
    /\ report = NoReport

\* FeedbackAnalyzer.load_feedback
load_feedback ==
    /\ fa_pc = "idle"
    /\ IF feedback_file.exists
       THEN /\ feedback_data' =
                 [i \in 1..Len(feedback_file.rows) |->
                     DictReaderRow(feedback_file.fieldnames, feedback_file.rows[i])]
            /\ fa_exc' = ""
       ELSE /\ fa_exc' = "FileNotFoundError"
            /\ UNCHANGED feedback_data
    /\ UNCHANGED <<feedback_file, discrepancies, agreement_stats, fa_pc, fa_idx,
                   fa_calls, buckets, improved_prompt>>

\* analyze_feedback's classification without its elif branch: a text that is
\* not full agreement falls through to disagree
ClassifyWithoutPartial(agreement) ==
    IF In("yes", agreement) \/ In("agree", agreement) THEN "agree"
    ELSE "disagree"

\* the branch of analyze_feedback's if/elif/else taken for a lowercased text
Classify(agreement) ==
    IF In("yes", agreement) \/ In("agree", agreement) THEN "agree"
    ELSE IF In("partial", agreement) THEN "partial"
    ELSE "disagree"

\* analyze_feedback: the call, up to the loop
analyze_feedback ==
    /\ fa_pc = "idle"
    /\ fa_calls < MaxCalls
    /\ fa_pc' = "analyzing"
    /\ fa_idx' = 1
    /\ fa_calls' = fa_calls + 1
    /\ fa_exc' = ""
    /\ UNCHANGED <<feedback_file, feedback_data, discrepancies, agreement_stats,
                   buckets, improved_prompt>>

\* analyze_feedback: one iteration of the loop over feedback_data
analyze_item ==
    /\ fa_pc = "analyzing"
    /\ fa_idx <= Len(feedback_data)
    /\ LET item      == feedback_data[fa_idx]
           counted   == [agreement_stats EXCEPT !.total = @ + 1]
           agreement == Get(item, "agreement", "")
       IN  IF agreement = None
           THEN \* None.lower() raises AttributeError after total was incremented
                /\ agreement_stats' = counted
                /\ fa_exc' = "AttributeError"
                /\ fa_pc' = "idle"
                /\ fa_idx' = 0
                /\ UNCHANGED discrepancies
           ELSE LET class == Classify(Lower(agreement))
                IN  /\ agreement_stats' = [counted EXCEPT ![class] = @ + 1]
                    /\ discrepancies' =
                          IF class = "disagree" THEN Append(discrepancies, item)
                          ELSE discrepancies
                    /\ fa_idx' = fa_idx + 1
                    /\ UNCHANGED <<fa_pc, fa_exc>>
    /\ UNCHANGED <<feedback_file, feedback_data, fa_calls, buckets, improved_prompt>>

\* round(num / den, 1) for num, den >= 0, in tenths (a tie goes to the even
\* tenth); the division raises when den is 0
RoundedQuotient(num, den) ==
    IF den = 0 THEN [raised |-> "ZeroDivisionError", tenths |-> 0]
    ELSE LET q == (num * 10) \div den
             r == (num * 10) % den
         IN  [raised |-> "",
              tenths |-> IF 2 * r > den \/ (2 * r = den /\ q % 2 = 1) THEN q + 1 ELSE q]

\* _percentage without its test of total
_percentage_unguarded(key) ==
    RoundedQuotient(agreement_stats[key] * 100, agreement_stats.total)
\* FeedbackAnalyzer._percentage: the exception raised ("" if none) and the
\* value returned in tenths of a percent
_percentage(key) ==
    IF agreement_stats.total = 0 THEN [raised |-> "", tenths |-> 0]
    ELSE RoundedQuotient(agreement_stats[key] * 100, agreement_stats.total)

\* analyze_feedback: after the loop (prints the statistics, returns discrepancies)
analyze_return ==
    /\ fa_pc = "analyzing"
    /\ fa_idx > Len(feedback_data)
    /\ LET shown == [key \in {"agree", "partial", "disagree"} |-> _percentage(key)]
       IN  IF \E key \in DOMAIN shown : shown[key].raised # ""
           THEN /\ fa_exc' = "ZeroDivisionError"
                /\ UNCHANGED printed
           ELSE /\ printed' = [key \in DOMAIN shown |-> shown[key].tenths]
                /\ UNCHANGED fa_exc
    /\ fa_pc' = "idle"
    /\ fa_idx' = 0
    /\ UNCHANGED <<feedback_file, feedback_data, discrepancies, agreement_stats,
                   fa_calls, buckets, improved_prompt>>

\* the canned paragraphs of generate_improved_prompt: the opening newline, the
\* heading line and the closing newline of each triple-quoted literal (the
\* bullet lines between them are fixed text and are left out)
StageParagraph == "\n**CRITICAL: Blastocyst vs Cleavage Stage Identification**\n"
ExpansionParagraph == "\n**EXPANSION STAGE GUIDELINES (Expert-Refined):**\n"
IcmParagraph == "\n**ICM QUALITY GUIDELINES (Expert-Refined):**\n"
TeParagraph == "\n**TE QUALITY GUIDELINES (Expert-Refined):**\n"

\* generate_improved_prompt: the four lists built by the loop over discrepancies
\* (comments is the lowercased expert_comments of one discrepancy)
IsExpansionError(comments) == In("expansion", comments) \/ In("stage", comments)
IsIcmError(comments) == In("icm", comments) \/ In("inner cell mass", comments)
IsTeError(comments) == In("te", comments) \/ In("trophectoderm", comments)
IsStageMisidentification(comments) ==
    In("not a blastocyst", comments) \/ In("cleavage", comments) \/ In("morula", comments)

CommentsOf(disc) == Lower(Get(disc, "expert_comments", ""))

\* Python's list built by appending, in order, the discs[i] with keep[i]
RECURSIVE Appended(_, _, _)
Appended(discs, keep, i) ==
    IF i > Len(discs) THEN <<>>
    ELSE (IF keep[i] THEN <<discs[i]>> ELSE <<>>) \o Appended(discs, keep, i + 1)

\* the bucket loop with its four ifs chained as if/elif: each discrepancy lands
\* in the first list that matches only
BuildBucketsExclusive(discs) ==
    LET comments == [i \in 1..Len(discs) |-> CommentsOf(discs[i])]
        first == [i \in 1..Len(discs) |->
                    IF IsExpansionError(comments[i]) THEN "expansion"
                    ELSE IF IsIcmError(comments[i]) THEN "icm"
                    ELSE IF IsTeError(comments[i]) THEN "te"
                    ELSE IF IsStageMisidentification(comments[i]) THEN "stage"
                    ELSE "none"]
    IN  [stage_misidentification |->
            Appended(discs, [i \in 1..Len(discs) |-> first[i] = "stage"], 1),
         expansion_errors |->
            Appended(discs, [i \in 1..Len(discs) |-> first[i] = "expansion"], 1),
         icm_errors |-> Appended(discs, [i \in 1..Len(discs) |-> first[i] = "icm"], 1),
         te_errors |-> Appended(discs, [i \in 1..Len(discs) |-> first[i] = "te"], 1)]

BuildBuckets(discs) ==
    LET comments == [i \in 1..Len(discs) |-> CommentsOf(discs[i])]
    IN  [stage_misidentification |->
            Appended(discs, [i \in 1..Len(discs) |-> IsStageMisidentification(comments[i])], 1),
         expansion_errors |->
            Appended(discs, [i \in 1..Len(discs) |-> IsExpansionError(comments[i])], 1),
         icm_errors |->
            Appended(discs, [i \in 1..Len(discs) |-> IsIcmError(comments[i])], 1),
         te_errors |->
            Appended(discs, [i \in 1..Len(discs) |-> IsTeError(comments[i])], 1)]

\* the sections appended once per bucketed record instead of once per bucket
ImprovedSectionsPerRecord(b) ==
    [i \in 1..Len(b.stage_misidentification) |-> StageParagraph]
    \o [i \in 1..Len(b.expansion_errors) |-> ExpansionParagraph]
    \o [i \in 1..Len(b.icm_errors) |-> IcmParagraph]
    \o [i \in 1..Len(b.te_errors) |-> TeParagraph]

\* generate_improved_prompt: the sections appended for the non-empty lists
ImprovedSections(b) ==
    (IF b.stage_misidentification # <<>> THEN <<StageParagraph>> ELSE <<>>)
    \o (IF b.expansion_errors # <<>> THEN <<ExpansionParagraph>> ELSE <<>>)
    \o (IF b.icm_errors # <<>> THEN <<IcmParagraph>> ELSE <<>>)
    \o (IF b.te_errors # <<>> THEN <<TeParagraph>> ELSE <<>>)

\* FeedbackAnalyzer.generate_improved_prompt
generate_improved_prompt ==
    /\ fa_pc = "idle"
    /\ IF \E i \in 1..Len(discrepancies) :
              Get(discrepancies[i], "expert_comments", "") = None
       THEN \* None.lower() raises AttributeError inside the loop
            /\ fa_exc' = "AttributeError"
            /\ UNCHANGED <<buckets, improved_prompt>>
       ELSE LET built == BuildBuckets(discrepancies)
            IN  /\ buckets' = built
                /\ improved_prompt' = Join("\n", ImprovedSections(built))
                /\ fa_exc' = ""
    /\ UNCHANGED <<feedback_file, feedback_data, discrepancies, agreement_stats,
                   fa_pc, fa_idx, fa_calls>>

\* FeedbackAnalyzer.save_analysis_report (the timestamp is left out)
save_analysis_report ==
    /\ fa_pc = "idle"
    /\ LET accuracy == _percentage("agree")
       IN  IF accuracy.raised # ""
           THEN /\ fa_exc' = accuracy.raised
                /\ UNCHANGED <<buckets, improved_prompt, report>>
           ELSE IF \E i \in 1..Len(discrepancies) :
                      Get(discrepancies[i], "expert_comments", "") = None
           THEN \* generate_improved_prompt raises AttributeError
                /\ fa_exc' = "AttributeError"
                /\ UNCHANGED <<buckets, improved_prompt, report>>
           ELSE LET built == BuildBuckets(discrepancies)
                    prompt == Join("\n", ImprovedSections(built))
                IN  /\ buckets' = built
                    /\ improved_prompt' = prompt
                    /\ report' = [written |-> TRUE,
                                  total_embryos |-> agreement_stats.total,
                                  agreement_stats |-> agreement_stats,
                                  accuracy |-> accuracy.tenths,
                                  discrepancies |-> discrepancies,
                                  improvement_recommendations |-> prompt]
                    /\ fa_exc' = ""
    /\ UNCHANGED <<feedback_file, feedback_data, discrepancies, agreement_stats,
                   fa_pc, fa_idx, fa_calls, printed>>

\* the analysis flow that ends in a report
ReportNext ==
    \/ load_feedback /\ UNCHANGED <<rp_vars, gd_vars, rg_vars, ex_vars>>
    \/ analyze_feedback /\ UNCHANGED <<rp_vars, gd_vars, rg_vars, ex_vars>>
    \/ analyze_item /\ UNCHANGED <<rp_vars, gd_vars, rg_vars, ex_vars>>
    \/ analyze_return /\ UNCHANGED <<report, gd_vars, rg_vars, ex_vars>>
    \/ save_analysis_report /\ UNCHANGED <<gd_vars, rg_vars, ex_vars>>

FeedbackAnalyzerNext ==
    \/ load_feedback /\ UNCHANGED <<rp_vars, gd_vars, rg_vars, ex_vars>>
    \/ analyze_feedback /\ UNCHANGED <<rp_vars, gd_vars, rg_vars, ex_vars>>
    \/ analyze_item /\ UNCHANGED <<rp_vars, gd_vars, rg_vars, ex_vars>>
    \/ analyze_return /\ UNCHANGED <<report, gd_vars, rg_vars, ex_vars>>
    \/ generate_improved_prompt /\ UNCHANGED <<rp_vars, gd_vars, rg_vars, ex_vars>>

(***************************************************************************)
(* Properties of the FeedbackAnalyzer                                      *)
(***************************************************************************)
\* number of positions of list xs holding x
Count(xs, x) == Cardinality({i \in 1..Len(xs) : xs[i] = x})

\* number of places where text sub starts in text s
Occurrences(sub, s) ==
    Cardinality({i \in 1..(Len(s) - Len(sub) + 1) : SubSeq(s, i, i + Len(sub) - 1) = sub})

\* first place (1-based) where sub starts in s; 0 when it does not occur
FirstAt(sub, s) ==
    IF In(sub, s)
    THEN CHOOSE i \in 1..(Len(s) - Len(sub) + 1) :
            /\ SubSeq(s, i, i + Len(sub) - 1) = sub
            /\ \A j \in 1..(i - 1) : SubSeq(s, j, j + Len(sub) - 1) # sub
    ELSE 0

\* the agreement text of a record reads as full or partial agreement
ReadsAsAgreement(item) ==
    LET a == Lower(Get(item, "agreement", ""))
    IN  In("yes", a) \/ In("agree", a) \/ In("partial", a)

\* C1: every analyze_feedback call overwrites the previous statistics and
\* discrepancy list: when a call returns, agreement_stats.total is the number
\* of loaded feedback records and discrepancies holds each disagreeing record
\* of the loaded feedback exactly once.
C1_AnalysisOverwrites ==
    [][analyze_return =>
          /\ agreement_stats'.total = Len(feedback_data')
          /\ \A i \in 1..Len(feedback_data') :
                ~ReadsAsAgreement(feedback_data'[i]) =>
                    Count(discrepancies', feedback_data'[i])
                        = Count(feedback_data', feedback_data'[i])
          /\ \A i \in 1..Len(discrepancies') :
                Count(feedback_data', discrepancies'[i]) > 0]_vars

\* C2: in every reachable state of the analyzer the three class counters add
\* up to total.
C2_CountersSumToTotal ==
    agreement_stats.agree + agreement_stats.partial + agreement_stats.disagree
        = agreement_stats.total

\* the class the agreement text stands for when the whole text, lowercased, is
\* compared with the words yes, agree and partial
WordClass(text) ==
    LET a == Lower(text)
    IN  IF a \in {"yes", "agree"} THEN "agree"
        ELSE IF a = "partial" THEN "partial"
        ELSE "disagree"

\* C3: each record is counted in the class of its agreement text compared
\* case-insensitively: yes and agree are agree, partial is partial, every
\* other text (No, Disagree, the empty text) is disagree.
C3_ClassifiedByWord ==
    [][(analyze_item /\ fa_exc' = "") =>
          LET class == WordClass(Get(feedback_data[fa_idx], "agreement", ""))
          IN  agreement_stats'[class] = agreement_stats[class] + 1]_vars

\* the records of all four buckets
Bucketed ==
    UNION {{buckets[b][i] : i \in 1..Len(buckets[b])} : b \in DOMAIN buckets}

\* C4: discrepancies, and with it every bucket, holds only records counted as
\* disagree: no record whose agreement text reads as partial or full agreement
\* is in discrepancies or in a bucket, and discrepancies grows exactly with the
\* disagree counter.
C4_OnlyDisagreeBucketed ==
    /\ \A i \in 1..Len(discrepancies) : ~ReadsAsAgreement(discrepancies[i])
    /\ \A d \in Bucketed : ~ReadsAsAgreement(d)
    /\ Len(discrepancies) = agreement_stats.disagree

\* C4 witness: a Partial record whose comment names a keyword was counted, a
\* disagreeing record was bucketed, and the Partial one is in no bucket.
C4_Witness ==
    /\ agreement_stats.partial > 0
    /\ improved_prompt # None
    /\ buckets.te_errors # <<>>
    /\ buckets.expansion_errors = <<>>
    /\ \E i \in 1..Len(feedback_data) :
          /\ Get(feedback_data[i], "agreement", "") = "Partial"
          /\ In("expansion", Lower(Get(feedback_data[i], "expert_comments", "")))

\* the keyword set of each bucket
BucketKeywords ==
    [stage_misidentification |-> {"not a blastocyst", "cleavage", "morula"},
     expansion_errors |-> {"expansion", "stage"},
     icm_errors |-> {"icm", "inner cell mass"},
     te_errors |-> {"te", "trophectoderm"}]

\* C5: when generate_improved_prompt returns, each discrepancy is in a bucket
\* exactly when its lowercased comment contains one of that bucket's keywords,
\* bucket by bucket, as often as it is in discrepancies.
C5_BucketsByKeyword ==
    [][(generate_improved_prompt /\ fa_exc' = "") =>
          \A b \in DOMAIN BucketKeywords :
             \A i \in 1..Len(discrepancies) :
                LET d == discrepancies[i]
                    hit == \E kw \in BucketKeywords[b] :
                              In(kw, Lower(Get(d, "expert_comments", "")))
                IN  Count(buckets'[b], d) = (IF hit THEN Count(discrepancies, d) ELSE 0)]_vars

\* C5 witness: a record with the comment "not a blastocyst, wrong stage" is in
\* the stage and the expansion bucket and in neither of the other two, and
\* a record in no bucket at all was a discrepancy too.
C5_Witness ==
    /\ \E i \in 1..Len(buckets.stage_misidentification) :
          LET d == buckets.stage_misidentification[i]
          IN  /\ d.expert_comments = "not a blastocyst, wrong stage"
              /\ Count(buckets.expansion_errors, d) = 1
              /\ Count(buckets.icm_errors, d) = 0
              /\ Count(buckets.te_errors, d) = 0
    /\ Len(buckets.te_errors) = 1
    /\ Len(discrepancies) = 2

\* the canned paragraph of each bucket, in the order of the text
Paragraphs ==
    << <<"stage_misidentification", StageParagraph>>,
       <<"expansion_errors", ExpansionParagraph>>,
       <<"icm_errors", IcmParagraph>>,
       <<"te_errors", TeParagraph>> >>

\* C6: the returned text holds the paragraph of each non-empty bucket once and
\* of no empty bucket, in the order stage, expansion, icm, te, with nothing but
\* the joining newlines between them; it is empty when every bucket is empty.
C6_PromptFromBuckets ==
    improved_prompt # None =>
        LET present == {k \in 1..Len(Paragraphs) : buckets[Paragraphs[k][1]] # <<>>}
        IN  /\ \A k \in 1..Len(Paragraphs) :
                  Occurrences(Paragraphs[k][2], improved_prompt)
                      = (IF k \in present THEN 1 ELSE 0)
            /\ \A k, m \in present :
                  k < m => FirstAt(Paragraphs[k][2], improved_prompt)
                              + Len(Paragraphs[k][2])
                              < FirstAt(Paragraphs[m][2], improved_prompt)
            /\ present = {} => improved_prompt = ""
            /\ present # {} =>
                  /\ \E k \in present : FirstAt(Paragraphs[k][2], improved_prompt) = 1
                  /\ \E k \in present :
                        FirstAt(Paragraphs[k][2], improved_prompt) + Len(Paragraphs[k][2])
                            = Len(improved_prompt) + 1
            /\ \A k, m \in present :
                  (k < m /\ \A n \in present : ~(k < n /\ n < m)) =>
                     FirstAt(Paragraphs[m][2], improved_prompt)
                        = FirstAt(Paragraphs[k][2], improved_prompt)
                            + Len(Paragraphs[k][2]) + 1

\* C6 witness: buckets holding several records each give one paragraph each,
\* here the stage, expansion and te paragraphs and no icm paragraph.
C6_Witness ==
    /\ improved_prompt # None
    /\ Len(buckets.te_errors) >= 2
    /\ Len(buckets.stage_misidentification) >= 2
    /\ buckets.icm_errors = <<>>
    /\ improved_prompt = StageParagraph \o "\n" \o ExpansionParagraph \o "\n" \o TeParagraph

\* C7: analyze_feedback never runs over loaded feedback records that lack one
\* of the required columns.
C7_NoAnalysisWithoutColumns ==
    fa_pc = "analyzing" =>
        \A i \in 1..Len(feedback_data) :
            \A c \in 1..Len(Columns) : Columns[c] \in DOMAIN feedback_data[i]


\* C14: in every state of the analyzer the percentage of each counter is
\* computed without a division error, and is 0 when total is 0 or when the
\* counter is 0; so are the percentages analyze_feedback printed and the
\* accuracy of a report, and no analyzer call has ended in a division error.
C14_PercentageOfNothingIsZero ==
    /\ \A key \in DOMAIN agreement_stats :
          /\ _percentage(key).raised = ""
          /\ (agreement_stats.total = 0 \/ agreement_stats[key] = 0) =>
                _percentage(key).tenths = 0
    /\ fa_exc # "ZeroDivisionError"
    /\ (fa_pc = "idle" /\ fa_exc = "") =>
          \A key \in DOMAIN printed :
              (agreement_stats.total = 0 \/ agreement_stats[key] = 0) =>
                 printed[key] = 0
    /\ (report.written
          /\ (report.total_embryos = 0 \/ report.agreement_stats.agree = 0)) =>
             report.accuracy = 0

\* C14 witness: a feedback set without records was analyzed and the report
\* saved: total is 0, the percentages printed and the accuracy are 0.
C14_Witness ==
    /\ feedback_file.exists
    /\ fa_calls >= 1
    /\ fa_exc = ""
    /\ agreement_stats.total = 0
    /\ printed = [key \in {"agree", "partial", "disagree"} |-> 0]
    /\ report.written
    /\ report.total_embryos = 0
    /\ report.accuracy = 0

(***************************************************************************)
(* More Python str and pathlib operations, used by the grader.             *)
(***************************************************************************)
Whitespace == {" ", "\n", "\t", "\r"}

\* str.strip()
RECURSIVE LStrip(_)
LStrip(s) ==
    IF s # "" /\ CharAt(s, 1) \in Whitespace THEN LStrip(SubSeq(s, 2, Len(s))) ELSE s
RECURSIVE RStrip(_)
RStrip(s) ==
    IF s # "" /\ CharAt(s, Len(s)) \in Whitespace THEN RStrip(SubSeq(s, 1, Len(s) - 1)) ELSE s
Strip(s) == RStrip(LStrip(s))

\* str.find(sub, start): 0-based index of the first occurrence at or after
\* start, -1 when there is none
Find(s, sub, start) ==
    LET at == {i \in start..(Len(s) - Len(sub)) : SubSeq(s, i + 1, i + Len(sub)) = sub}
    IN  IF at = {} THEN -1 ELSE CHOOSE i \in at : \A j \in at : i <= j

\* s[from:to] with 0-based bounds, a negative bound counting from the end
Slice(s, from, to) ==
    LET lo == IF from < 0 THEN (IF Len(s) + from < 0 THEN 0 ELSE Len(s) + from)
              ELSE from
        hi == IF to < 0 THEN (IF Len(s) + to < 0 THEN 0 ELSE Len(s) + to)
              ELSE IF to > Len(s) THEN Len(s) ELSE to
    IN  SubSeq(s, lo + 1, hi)

EndsWith(s, suffix) ==
    Len(s) >= Len(suffix) /\ SubSeq(s, Len(s) - Len(suffix) + 1, Len(s)) = suffix

\* the characters of file names in code point order, which is the order
\* sorted() compares paths by
CodePoints == "-.0123456789ABCDEFGHIJKLMNOPQRSTUVWXYZ_abcdefghijklmnopqrstuvwxyz"
Ord(c) == CHOOSE i \in 1..Len(CodePoints) : CharAt(CodePoints, i) = c

\* a < b for two str
RECURSIVE StrLess(_, _)
StrLess(a, b) ==
    IF b = "" THEN FALSE
    ELSE IF a = "" THEN TRUE
    ELSE IF CharAt(a, 1) = CharAt(b, 1)
         THEN StrLess(SubSeq(a, 2, Len(a)), SubSeq(b, 2, Len(b)))
         ELSE Ord(CharAt(a, 1)) < Ord(CharAt(b, 1))

\* sorted() of a set of names
RECURSIVE Sorted(_)
Sorted(names) ==
    IF names = {} THEN <<>>
    ELSE LET least == CHOOSE n \in names : \A m \in names \ {n} : StrLess(n, m)
         IN  <<least>> \o Sorted(names \ {least})

\* Path(path).name
RECURSIVE PathName(_)
PathName(path) ==
    IF In("/", path) THEN PathName(SubSeq(path, Find(path, "/", 0) + 2, Len(path)))
    ELSE path

(***************************************************************************)
(* The world of the grader: directories, files, the remote service         *)
(***************************************************************************)
\* main's image_dir
ImageDir == "extracted_images"

\* names a directory may hold
FileNames == {"D3_101.jpeg", "D5_368.jpg", "D5_400.jpg", "D5_412.jpeg", "report.html"}

\* the listings of a directory
Listings == {l \in SUBSET FileNames : Cardinality(l) <= MaxFiles}

\* Path.glob("*.jpg") and Path.glob("*.jpeg") on a listing
Glob(listing, suffix) == {n \in listing : EndsWith(n, suffix)}

\* a reply holding every key the prompt asks for
FullJson ==
    "{\"gardner_grade\": \"4AA\", \"expansion\": \"4\", \"icm_quality\": \"A\", "
    \o "\"te_quality\": \"A\", \"quality_score\": \"Good\", "
    \o "\"explanation\": \"Expanded blastocyst.\"}"
FullDict ==
    [gardner_grade |-> "4AA", expansion |-> "4", icm_quality |-> "A",
     te_quality |-> "A", quality_score |-> "Good",
     explanation |-> "Expanded blastocyst."]

\* a reply that is a JSON object without some of the keys
PartialJson == "{\"gardner_grade\": \"4AA\", \"explanation\": \"Expanded blastocyst.\"}"
PartialDict == [gardner_grade |-> "4AA", explanation |-> "Expanded blastocyst."]

\* a reply that is JSON but not an object
ListJson == "[\"4AA\"]"

\* a reply that is no JSON at all
ProseReply == "I cannot grade this image."

\* the markdown fence, three backquotes in the source; a TLA+ string cannot hold
\* a backquote, so each is written as a tilde, which no other text here uses
Fence == "~~~"

\* the texts response.text may be
ReplyTexts ==
    { FullJson,
      Fence \o "json\n" \o FullJson \o "\n" \o Fence,
      "Here is the grade:\n" \o Fence \o "\n" \o FullJson \o "\n" \o Fence \o "\n",
      PartialJson,
      ProseReply,
      ListJson,
      Fence \o "json\n" \o FullJson }

\* what happens for one image: reading the file fails, the remote call raises
\* (text is str(e) of the exception), or the service replies with text
Outcomes ==
    {[kind |-> "read_error", text |-> "[Errno 13] Permission denied"]}
    \cup {[kind |-> "transport_error", text |-> t] :
             t \in {"503 The model is overloaded.", ""}}
    \cup {[kind |-> "reply", text |-> t] : t \in ReplyTexts}

\* json.loads: the parsed value, or the message of the JSONDecodeError raised
JsonLoads(text) ==
    IF text = FullJson THEN [ok |-> TRUE, is_dict |-> TRUE, value |-> FullDict]
    ELSE IF text = PartialJson THEN [ok |-> TRUE, is_dict |-> TRUE, value |-> PartialDict]
    ELSE IF text = ListJson THEN [ok |-> TRUE, is_dict |-> FALSE, value |-> <<"4AA">>]
    ELSE IF text = Slice(FullJson, 0, -1)
         THEN [ok |-> FALSE, is_dict |-> FALSE,
               value |-> "Expecting ',' delimiter: line 1 column 145 (char 144)"]
    ELSE [ok |-> FALSE, is_dict |-> FALSE,
          value |-> "Expecting value: line 1 column 1 (char 0)"]

\* datetime.now().isoformat()
Timestamp == "2025-01-01T00:00:00"

(***************************************************************************)
(* EmbryoGrader                                                            *)
(***************************************************************************)
\* grade_embryo: the text handed to json.loads, after the fence is cut away
ExtractJson(reply) ==
    LET response_text == Strip(reply)
    IN  IF In(Fence \o "json", response_text)
        THEN LET json_start == Find(response_text, Fence \o "json", 0) + 7
                 json_end == Find(response_text, Fence, json_start)
             IN  Strip(Slice(response_text, json_start, json_end))
        ELSE IF In(Fence, response_text)
        THEN LET json_start == Find(response_text, Fence, 0) + 3
                 json_end == Find(response_text, Fence, json_start)
             IN  Strip(Slice(response_text, json_start, json_end))
        ELSE response_text

\* grade_embryo: the dict with the metadata keys set on it
WithMetadata(result, image_path, full_response) ==
    LET meta == [image_name |-> PathName(image_path), image_path |-> image_path,
                 timestamp |-> Timestamp, full_response |-> full_response]
    IN  [k \in DOMAIN result \cup DOMAIN meta |->
            IF k \in DOMAIN meta THEN meta[k] ELSE result[k]]

\* grade_embryo: the try block. failed tells whether it raised, kind and text
\* are the exception's class and str(e), sent the requests made to the service
GradeAttempt(image_path, outcome, prompt) ==
    LET request == [prompt |-> prompt, image |-> image_path]
    IN  IF outcome.kind = "read_error"
        THEN [failed |-> TRUE, kind |-> "OSError", text |-> outcome.text,
              sent |-> <<>>, result |-> <<>>]
        ELSE IF outcome.kind = "transport_error"
        THEN [failed |-> TRUE, kind |-> "TransportError", text |-> outcome.text,
              sent |-> <<request>>, result |-> <<>>]
        ELSE LET parsed == JsonLoads(ExtractJson(outcome.text))
             IN  IF ~parsed.ok
                 THEN [failed |-> TRUE, kind |-> "JSONDecodeError", text |-> parsed.value,
                       sent |-> <<request>>, result |-> <<>>]
                 ELSE IF ~parsed.is_dict
                 THEN [failed |-> TRUE, kind |-> "TypeError",
                       text |-> "list indices must be integers or slices, not str",
                       sent |-> <<request>>, result |-> <<>>]
                 ELSE [failed |-> FALSE, kind |-> "", text |-> "",
                       sent |-> <<request>>,
                       result |-> WithMetadata(parsed.value, image_path, outcome.text)]

\* grade_embryo: the dict returned by the except block
ErrorRecord(image_path, text) ==
    [image_name |-> PathName(image_path), image_path |-> image_path,
     gardner_grade |-> "ERROR", expansion |-> "ERROR", icm_quality |-> "ERROR",
     te_quality |-> "ERROR", quality_score |-> "ERROR",
     explanation |-> "Error during grading: " \o text,
     full_response |-> "", timestamp |-> Timestamp]

\* an except clause for JSON errors only
ExceptHandlesJsonOnly(kind) == kind = "JSONDecodeError"

\* `except Exception`: every exception class the try block can raise is caught
ExceptHandles(kind) == kind \in {"OSError", "TransportError", "JSONDecodeError", "TypeError"}

\* EmbryoGrader.grade_embryo: raised tells whether an exception leaves the call
grade_embryo(image_path, outcome, prompt) ==
    LET attempt == GradeAttempt(image_path, outcome, prompt)
    IN  IF ~attempt.failed
        THEN [raised |-> FALSE, text |-> "", sent |-> attempt.sent,
              value |-> attempt.result]
        ELSE IF ExceptHandles(attempt.kind)
        THEN [raised |-> FALSE, text |-> "", sent |-> attempt.sent,
              value |-> ErrorRecord(image_path, attempt.text)]
        ELSE [raised |-> TRUE, text |-> attempt.text, sent |-> attempt.sent,
              value |-> <<>>]

\* grade_directory: the files of the pass, the .jpg ones before the .jpeg ones
ImageFiles(listing) == Sorted(Glob(listing, ".jpg")) \o Sorted(Glob(listing, ".jpeg"))

\* grade_directory up to the loop, called on a grader whose results are held
grade_directory_begin(held) ==
    \E listing \in Listings :
        LET files == ImageFiles(listing)
        IN  /\ image_files' = files
            /\ world' = <<>>
            /\ requests' = <<>>
            /\ gd_exc' = ""
            /\ IF files = <<>>
               THEN \* "No images found": returns [] and leaves self.results
                    /\ gd_returned' = [done |-> TRUE, value |-> <<>>]
                    /\ results' = held
                    /\ UNCHANGED <<gd_pc, gd_idx>>
               ELSE /\ results' = <<>>
                    /\ gd_pc' = "grading"
                    /\ gd_idx' = 1
                    /\ gd_returned' = [done |-> FALSE, value |-> <<>>]

\* EmbryoGrader.grade_directory: the call, up to the loop
grade_directory ==
    /\ gd_pc = "idle"
    /\ grade_directory_begin(results)
    /\ UNCHANGED GARDNER_SCALE_PROMPT

\* grade_directory: one iteration of the loop over image_files; what reading
\* the file and the remote service do for this image is recorded in world
grade_next ==
    /\ gd_pc = "grading"
    /\ gd_idx <= Len(image_files)
    /\ \E outcome \in Outcomes :
          LET img_file == image_files[gd_idx]
              graded == grade_embryo(ImageDir \o "/" \o img_file, outcome,
                                     GARDNER_SCALE_PROMPT)
          IN  /\ world' = (img_file :> outcome) @@ world
              /\ requests' = requests \o graded.sent
              /\ IF graded.raised
                 THEN /\ gd_exc' = graded.text
                      /\ gd_pc' = "idle"
                      /\ gd_idx' = 0
                      /\ UNCHANGED results
                 ELSE /\ results' = Append(results, graded.value)
                      /\ gd_idx' = gd_idx + 1
                      /\ UNCHANGED <<gd_pc, gd_exc>>
    /\ UNCHANGED <<GARDNER_SCALE_PROMPT, image_files, gd_returned>>

\* grade_directory: after the loop
grade_directory_return ==
    /\ gd_pc = "grading"
    /\ gd_idx > Len(image_files)
    /\ gd_returned' = [done |-> TRUE, value |-> results]
    /\ gd_pc' = "idle"
    /\ gd_idx' = 0
    /\ UNCHANGED <<GARDNER_SCALE_PROMPT, results, image_files, world, requests, gd_exc>>

EmbryoGraderNext ==
    \/ grade_directory /\ UNCHANGED <<fa_vars, rp_vars, rg_vars, ex_vars>>
    \/ grade_next /\ UNCHANGED <<fa_vars, rp_vars, rg_vars, ex_vars>>
    \/ grade_directory_return /\ UNCHANGED <<fa_vars, rp_vars, rg_vars, ex_vars>>

(***************************************************************************)
(* improve_with_feedback.py: ImprovedGrader                                *)
(* The grader variables stand for the EmbryoGrader in use; regrade_embryos *)
(* makes its own (base_grader).  ImprovedGrader.results, which takes the   *)
(* value grade_directory returns (gd_returned.value), is not kept.         *)
(***************************************************************************)
\* the text of GARDNER_SCALE_PROMPT as the module defines it (first and last
\* line of the literal)
RubricText == "You are an expert embryologist ... Now analyze this embryo image:\n"

\* values generate_improved_prompt returns: no paragraph, or two of them
ImprovedPrompts == {"", ExpansionParagraph \o "\n" \o TeParagraph}

\* ImprovedGrader.__init__
ImprovedGrader ==
    /\ ig_improved_prompt = None
    /\ gd_pc = "idle"
    /\ \E prompt \in ImprovedPrompts : ig_improved_prompt' = prompt
    /\ UNCHANGED <<original_prompt, rg_pc>>

\* ImprovedGrader.regrade_embryos: the call, up to the loop of the
\* grade_directory it makes on a new EmbryoGrader
regrade_embryos ==
    /\ rg_pc = "idle"
    /\ gd_pc = "idle"
    /\ ig_improved_prompt # None
    /\ original_prompt' = GARDNER_SCALE_PROMPT
    /\ GARDNER_SCALE_PROMPT' = ig_improved_prompt \o "\n\n" \o GARDNER_SCALE_PROMPT
    /\ grade_directory_begin(<<>>)
    /\ rg_pc' = "regrading"
    /\ UNCHANGED ig_improved_prompt

\* regrade_embryos after grade_directory, without the restoring assignment
regrade_embryos_return_amended ==
    /\ rg_pc = "regrading"
    /\ gd_pc = "idle"
    /\ gd_returned.done \/ gd_exc # ""
    /\ rg_pc' = "idle"
    /\ UNCHANGED <<ig_improved_prompt, original_prompt, gd_vars>>
\* regrade_embryos: after grade_directory; an exception of grade_directory
\* passes through regrade_embryos before the prompt is restored
regrade_embryos_return ==
    /\ rg_pc = "regrading"
    /\ gd_pc = "idle"
    /\ gd_returned.done \/ gd_exc # ""
    /\ GARDNER_SCALE_PROMPT' =
          IF gd_exc # "" THEN GARDNER_SCALE_PROMPT ELSE original_prompt
    /\ rg_pc' = "idle"
    /\ UNCHANGED <<results, image_files, world, requests, gd_pc, gd_idx, gd_exc,
                   gd_returned, ig_improved_prompt, original_prompt>>

\* ordinary passes and regrading passes
RegradeNext ==
    \/ ImprovedGrader /\ UNCHANGED <<fa_vars, rp_vars, gd_vars, ex_vars>>
    \/ rg_pc = "idle" /\ grade_directory /\ UNCHANGED <<fa_vars, rp_vars, rg_vars, ex_vars>>
    \/ grade_next /\ UNCHANGED <<fa_vars, rp_vars, rg_vars, ex_vars>>
    \/ grade_directory_return /\ UNCHANGED <<fa_vars, rp_vars, rg_vars, ex_vars>>
    \/ regrade_embryos /\ UNCHANGED <<fa_vars, rp_vars, ex_vars>>
    \/ regrade_embryos_return /\ UNCHANGED <<fa_vars, rp_vars, ex_vars>>

ImprovedGraderInit ==
    /\ ig_improved_prompt = None
    /\ original_prompt = None
    /\ rg_pc = "idle"

(***************************************************************************)
(* Properties of the EmbryoGrader                                          *)
(***************************************************************************)
\* the fields of a GradingRecord (grade is the key gardner_grade)
RecordFields ==
    {"image_name", "image_path", "gardner_grade", "expansion", "icm_quality",
     "te_quality", "quality_score", "explanation", "timestamp"}

\* the five grading fields
GradingFields ==
    {"gardner_grade", "expansion", "icm_quality", "te_quality", "quality_score"}

AllError(r) == \A f \in GradingFields : f \in DOMAIN r /\ r[f] = "ERROR"

\* C8: every record grade_embryo returns has all GradingRecord fields, and its
\* five grading fields are either all "ERROR" or none of them is.
C8_RecordsComplete ==
    \A i \in 1..Len(results) :
        /\ RecordFields \subseteq DOMAIN results[i]
        /\ \/ AllError(results[i])
           \/ \A f \in GradingFields : results[i][f] # "ERROR"

\* an outcome C9 names: the image cannot be read, the remote call raises, or
\* the reply is plain text with no fence
NamedFailure(o) ==
    \/ o.kind \in {"read_error", "transport_error"}
    \/ o.kind = "reply" /\ o.text = ProseReply

\* str(e) of the exception of a named failure
FailureText(o) ==
    IF o.kind = "reply" THEN "Expecting value: line 1 column 1 (char 0)" ELSE o.text

\* C9: grade_embryo never lets an exception out: grade_directory gets a record
\* for every image it has processed; for an image whose file cannot be read,
\* whose remote call raised or whose reply was no JSON, the record has the five
\* grading fields "ERROR" and a non-empty explanation holding the exception's
\* text; and no image is sent to the remote service more than once in a pass.
C9_ErrorsBecomeRecords ==
    /\ gd_exc = ""
    /\ gd_pc = "grading" => Len(results) = gd_idx - 1
    /\ \A i \in 1..Len(results) :
          LET r == results[i]
          IN  r.image_name \in DOMAIN world =>
                 (NamedFailure(world[r.image_name]) =>
                     /\ AllError(r)
                     /\ r.explanation # ""
                     /\ In(FailureText(world[r.image_name]), r.explanation)
                     /\ Len(r.explanation) > Len(FailureText(world[r.image_name])))
    /\ \A n \in DOMAIN world :
          LET sent == {k \in 1..Len(requests) : PathName(requests[k].image) = n}
          IN  Cardinality(sent) <= (IF world[n].kind = "read_error" THEN 0 ELSE 1)

\* C9 witness: a pass has returned with an ERROR record for a plain text reply
\* and one for a remote call that raised with an empty message.
C9_Witness ==
    /\ gd_returned = [done |-> TRUE, value |-> results]
    /\ \E i, j \in 1..Len(results) :
          /\ results[i].image_name \in DOMAIN world
          /\ results[j].image_name \in DOMAIN world
          /\ world[results[i].image_name] = [kind |-> "reply", text |-> ProseReply]
          /\ results[i].gardner_grade = "ERROR"
          /\ world[results[j].image_name] = [kind |-> "transport_error", text |-> ""]
          /\ results[j].explanation = "Error during grading: "

\* C10: the records of a pass are in lexicographic order of the file names,
\* over all the recognized files whatever their extension.
C10_LexicographicOrder ==
    \A i, j \in 1..Len(results) :
        i < j => StrLess(results[i].image_name, results[j].image_name)

\* C11: once grade_directory has returned, the results held by the grader are
\* one record per recognized image file of the directory just processed, in
\* the order of the pass, and nothing else: nothing of an earlier pass is
\* kept, and a directory without images leaves the list empty.
C11_ResultsOfThisPass ==
    (gd_pc = "idle" /\ gd_returned.done) =>
        /\ Len(results) = Len(image_files)
        /\ \A i \in 1..Len(results) : results[i].image_name = image_files[i]

(***************************************************************************)
(* extract_images.py: the regular expressions, base64 and the report       *)
(***************************************************************************)
Digits == "0123456789"
DigitChars == {CharAt(Digits, i) : i \in 1..Len(Digits)}

\* the base64 alphabet, a character's value being its position less one
Base64Alphabet == UpperChars \o LowerChars \o Digits \o "+/"
Base64Value == [i \in 1..Len(Base64Alphabet) |-> i - 1]
Base64Index == [c \in {CharAt(Base64Alphabet, i) : i \in 1..Len(Base64Alphabet)} |->
                   CHOOSE i \in 1..Len(Base64Alphabet) : CharAt(Base64Alphabet, i) = c]

\* the character class [A-Za-z0-9+/=] of the payload pattern
PayloadChars == DOMAIN Base64Index \cup {"="}

\* the literal the payload pattern starts with
PayloadPrefix == "data:image/jpeg;base64,"

\* length of the longest run of characters of a class in s from 0-based pos
RECURSIVE RunLength(_, _, _)
RunLength(s, pos, class) ==
    IF pos < Len(s) /\ CharAt(s, pos + 1) \in class
    THEN 1 + RunLength(s, pos + 1, class)
    ELSE 0

\* re.findall(r'data:image/jpeg;base64,([A-Za-z0-9+/=]+)', html) from start
RECURSIVE FindAllPayloads(_, _)
FindAllPayloads(html, start) ==
    LET at == Find(html, PayloadPrefix, start)
        from == at + Len(PayloadPrefix)
        n == RunLength(html, from, PayloadChars)
    IN  IF at = -1 THEN <<>>
        ELSE IF n = 0 THEN FindAllPayloads(html, at + 1)
        ELSE <<Slice(html, from, from + n)>> \o FindAllPayloads(html, from + n)

\* length of the match of D[35]_\d+\.jpg at 0-based pos of s, 0 without one
FilenameMatch(s, pos) ==
    LET digits == RunLength(s, pos + 3, DigitChars)
    IN  IF /\ Slice(s, pos, pos + 1) = "D"
           /\ Slice(s, pos + 1, pos + 2) \in {"3", "5"}
           /\ Slice(s, pos + 2, pos + 3) = "_"
           /\ digits >= 1
           /\ Slice(s, pos + 3 + digits, pos + 7 + digits) = ".jpg"
        THEN digits + 7
        ELSE 0

\* re.findall(r'(D[35]_\d+\.jpg)', html) from start
RECURSIVE FindAllFilenames(_, _)
FindAllFilenames(html, start) ==
    LET at == Find(html, "D", start)
        n == FilenameMatch(html, at)
    IN  IF at = -1 THEN <<>>
        ELSE IF n = 0 THEN FindAllFilenames(html, at + 1)
        ELSE <<Slice(html, at, at + n)>> \o FindAllFilenames(html, at + n)

\* the loop that removes duplicates while preserving order
RECURSIVE RemoveDuplicates(_, _)
RemoveDuplicates(names, unique) ==
    IF names = <<>> THEN unique
    ELSE RemoveDuplicates(Tail(names),
                          IF \E k \in 1..Len(unique) : unique[k] = Head(names)
                          THEN unique
                          ELSE Append(unique, Head(names)))

\* base64.b64decode(data) for data of the payload class: binascii's
\* a2b_base64 without strict mode, from position pos with quad_pos characters
\* of the current group read, leftchar their remaining bits and pads the
\* padding characters seen since
RECURSIVE a2b_base64(_, _, _, _, _, _)
a2b_base64(data, pos, quad_pos, leftchar, pads, bin) ==
    IF pos > Len(data)
    THEN IF quad_pos = 0
         THEN [ok |-> TRUE, bytes |-> bin, error |-> ""]
         ELSE IF quad_pos = 1
         THEN [ok |-> FALSE, bytes |-> <<>>,
               error |-> "Invalid base64-encoded string"]
         ELSE [ok |-> FALSE, bytes |-> <<>>, error |-> "Incorrect padding"]
    ELSE LET c == CharAt(data, pos)
             v == Base64Value[Base64Index[c]]
         IN  IF c = "="
             THEN IF quad_pos >= 2 /\ quad_pos + pads + 1 >= 4
                  THEN [ok |-> TRUE, bytes |-> bin, error |-> ""]
                  ELSE a2b_base64(data, pos + 1, quad_pos, leftchar,
                                  IF quad_pos >= 2 THEN pads + 1 ELSE pads, bin)
             ELSE CASE quad_pos = 0 ->
                         a2b_base64(data, pos + 1, 1, v, 0, bin)
                    [] quad_pos = 1 ->
                         a2b_base64(data, pos + 1, 2, v % 16, 0,
                                    Append(bin, leftchar * 4 + v \div 16))
                    [] quad_pos = 2 ->
                         a2b_base64(data, pos + 1, 3, v % 4, 0,
                                    Append(bin, leftchar * 16 + v \div 4))
                    [] OTHER ->
                         a2b_base64(data, pos + 1, 0, 0, 0,
                                    Append(bin, leftchar * 64 + v))

b64decode(data) == a2b_base64(data, 1, 0, 0, 0, <<>>)

\* str(n) for n >= 0
RECURSIVE Str(_)
Str(n) == IF n < 10 THEN CharAt(Digits, n + 1)
          ELSE Str(n \div 10) \o CharAt(Digits, (n % 10) + 1)

\* format(n, "02d")
Format02d(n) == IF n < 10 THEN "0" \o Str(n) ELSE Str(n)

\* payloads of the sample reports: two that decode, one with bad padding
SamplePayloads == {"QUJD", "/9j/4A==", "QUJ"}

\* file names of the sample reports
SampleNames == {"D5_368.jpg", "D3_101.jpg"}

ImgTag(payload) == "<img src=\"" \o PayloadPrefix \o payload \o "\">\n"
CsvLine(name) == name \o ",1,3AA\n"

\* sequences over a set of at most n members
SeqsUpTo(S, n) == UNION {[1..k -> S] : k \in 0..n}

\* the sample reports: images, then a listing; an icon that is not a jpeg, an
\* image without data and names the filename pattern does not match are in
\* every one of them
HtmlFiles ==
    { "<link href=\"data:image/png;base64,iVBO\">\n"
        \o Join("", [k \in 1..Len(tags) |-> ImgTag(tags[k])])
        \o "<img src=\"" \o PayloadPrefix \o "\">\n"
        \o "<pre>image,day,grade\n"
        \o Join("", [k \in 1..Len(lines) |-> CsvLine(lines[k])])
        \o "D4_77.jpg,4,2BB\nD5_412.jpeg,5,4AA\n</pre>\n" :
      tags \in SeqsUpTo(SamplePayloads, MaxImages),
      lines \in SeqsUpTo(SampleNames, MaxNames) }

(***************************************************************************)
(* extract_images.py: extract_images_from_html                             *)
(***************************************************************************)
\* what the file system does when one image is written: the open and the
\* write go through, the open fails, or the write fails on the opened
\* (emptied) file
DiskOutcomes == {"written", "open_error", "write_error"}

\* the name given to the payload at i (0-based): filename of the loop body
OutputFilenameFromZero(i, names) ==
    IF i < Len(names) THEN names[i + 1]
    ELSE "embryo_" \o Format02d(i) \o ".jpg"
OutputFilename(i, names) ==
    IF i < Len(names) THEN names[i + 1]
    ELSE "embryo_" \o Format02d(i + 1) \o ".jpg"

\* extract_images_from_html: the call, up to the loop
extract_images_from_html ==
    /\ ex_pc = "idle"
    /\ \E html_file \in HtmlFiles \cup {None} :
          IF html_file = None
          THEN \* open() raises FileNotFoundError, which nothing catches
               /\ ex_pc' = "raised"
               /\ UNCHANGED <<html_content, matches, filenames, unique_filenames,
                              saved_count, ex_i>>
          ELSE /\ html_content' = html_file
               /\ matches' = FindAllPayloads(html_file, 0)
               /\ filenames' = FindAllFilenames(html_file, 0)
               /\ unique_filenames' =
                     RemoveDuplicates(FindAllFilenames(html_file, 0), <<>>)
               /\ saved_count' = 0
               /\ ex_i' = 0
               /\ ex_pc' = "saving"
    /\ UNCHANGED <<output_dir, saved, ex_returned>>

\* the loop with the handler around the whole of it: the first failure ends
\* the work on the payloads
save_image_or_stop ==
    /\ ex_pc = "saving"
    /\ ex_i < Len(matches)
    /\ \E disk \in DiskOutcomes :
          LET image_data == b64decode(matches[ex_i + 1])
              filename == OutputFilename(ex_i, unique_filenames)
          IN  IF ~image_data.ok
              THEN /\ saved' = Append(saved, [outcome |-> "decode_error", filename |-> None])
                   /\ ex_i' = Len(matches)
                   /\ UNCHANGED <<output_dir, saved_count>>
              ELSE IF disk = "written"
              THEN /\ output_dir' = (filename :> image_data.bytes) @@ output_dir
                   /\ saved' = Append(saved, [outcome |-> "saved", filename |-> filename])
                   /\ saved_count' = saved_count + 1
                   /\ ex_i' = ex_i + 1
              ELSE /\ saved' = Append(saved, [outcome |-> disk, filename |-> filename])
                   /\ ex_i' = Len(matches)
                   /\ UNCHANGED <<output_dir, saved_count>>
    /\ UNCHANGED <<html_content, matches, filenames, unique_filenames, ex_pc, ex_returned>>

\* extract_images_from_html: one iteration of the loop over matches
save_image ==
    /\ ex_pc = "saving"
    /\ ex_i < Len(matches)
    /\ \E disk \in DiskOutcomes :
          LET image_data == b64decode(matches[ex_i + 1])
              filename == OutputFilename(ex_i, unique_filenames)
          IN  IF ~image_data.ok
              THEN \* b64decode raises before the name is chosen
                   /\ saved' = Append(saved, [outcome |-> "decode_error", filename |-> None])
                   /\ UNCHANGED <<output_dir, saved_count>>
              ELSE IF disk = "written"
              THEN /\ output_dir' = (filename :> image_data.bytes) @@ output_dir
                   /\ saved' = Append(saved, [outcome |-> "saved", filename |-> filename])
                   /\ saved_count' = saved_count + 1
              ELSE IF disk = "write_error"
              THEN /\ output_dir' = (filename :> <<>>) @@ output_dir
                   /\ saved' = Append(saved, [outcome |-> disk, filename |-> filename])
                   /\ UNCHANGED saved_count
              ELSE /\ saved' = Append(saved, [outcome |-> disk, filename |-> filename])
                   /\ UNCHANGED <<output_dir, saved_count>>
    /\ ex_i' = ex_i + 1
    /\ UNCHANGED <<html_content, matches, filenames, unique_filenames, ex_pc, ex_returned>>

\* extract_images_from_html: after the loop
extract_return ==
    /\ ex_pc = "saving"
    /\ ex_i >= Len(matches)
    /\ ex_returned' = saved_count
    /\ ex_pc' = "returned"
    /\ UNCHANGED <<html_content, matches, filenames, unique_filenames, saved_count,
                   output_dir, saved, ex_i>>

ExtractorNext ==
    \/ extract_images_from_html /\ UNCHANGED <<fa_vars, rp_vars, gd_vars, rg_vars>>
    \/ save_image /\ UNCHANGED <<fa_vars, rp_vars, gd_vars, rg_vars>>
    \/ extract_return /\ UNCHANGED <<fa_vars, rp_vars, gd_vars, rg_vars>>

ExtractorInit ==
    /\ html_content = ""
    /\ matches = <<>>
    /\ filenames = <<>>
    /\ unique_filenames = <<>>
    /\ saved_count = 0
    /\ output_dir = <<>>
    /\ saved = <<>>
    /\ ex_pc = "idle"
    /\ ex_i = 0
    /\ ex_returned = None

(***************************************************************************)
(* Properties of extract_images_from_html                                  *)
(***************************************************************************)
\* the placeholder name of the payload at 1-based position n
Placeholder(n) == "embryo_" \o (IF n < 10 THEN "0" ELSE "") \o Str(n) \o ".jpg"

\* the members of a list without the repetitions, in the order they first occur
FirstOccurrences(names) ==
    LET first == {i \in 1..Len(names) : \A j \in 1..(i - 1) : names[j] # names[i]}
        nth[k \in 1..Cardinality(first)] ==
            CHOOSE i \in first : Cardinality({j \in first : j < i}) = k - 1
    IN  [k \in 1..Cardinality(first) |-> names[nth[k]]]

\* the items occur in html one after the other, from 0-based start on
RECURSIVE InDocumentOrder(_, _, _)
InDocumentOrder(html, items, start) ==
    \/ items = <<>>
    \/ LET at == Find(html, Head(items), start)
       IN  /\ at # -1
           /\ InDocumentOrder(html, Tail(items), at + Len(Head(items)))

\* the positions whose payload was decoded and written
SavedPositions == {i \in 1..Len(saved) : saved[i].outcome = "saved"}

\* C12 as stated: the i-th payload is written under the i-th file name found
\* in the text when there is one, otherwise under embryo_<NN>.jpg with NN its
\* 1-based position; 3 payloads and 2 file names give the 2 named files and
\* embryo_03.jpg.
C12_NamedByPosition ==
    /\ \A i \in 1..Len(saved) :
          saved[i].filename # None =>
             saved[i].filename =
                IF i <= Len(filenames) THEN filenames[i] ELSE Placeholder(i)
    /\ (ex_pc = "returned" /\ Len(matches) = 3 /\ Len(filenames) = 2
          /\ ex_returned = 3) =>
             DOMAIN output_dir = {filenames[1], filenames[2], "embryo_03.jpg"}

\* C12 amended: the payloads and the file names are taken in document order,
\* and the i-th payload is written under the i-th DISTINCT file name of the
\* text (repetitions of a name dropped, first occurrences kept in order) when
\* there is one, otherwise under embryo_<NN>.jpg with NN its 1-based
\* position; a written file holds the decoded bytes of its payload; no file
\* comes from a name beyond the payload count; 3 payloads and 2 distinct
\* names give, when all are written, the 2 named files and embryo_03.jpg.
C12_NamedByDistinctPosition ==
    LET names == FirstOccurrences(filenames)
        name(i) == IF i <= Len(names) THEN names[i] ELSE Placeholder(i)
    IN  /\ ex_i = 0 =>
              \* the lists as the scan leaves them; the loop does not change them
              /\ InDocumentOrder(html_content,
                    [k \in 1..Len(matches) |-> PayloadPrefix \o matches[k]], 0)
              /\ InDocumentOrder(html_content, filenames, 0)
        /\ \A i \in 1..Len(saved) :
              saved[i].filename # None => saved[i].filename = name(i)
        /\ \A i \in SavedPositions :
              /\ name(i) \in DOMAIN output_dir
              /\ output_dir[name(i)] = b64decode(matches[i]).bytes
        /\ DOMAIN output_dir \subseteq {name(i) : i \in 1..Len(matches)}
        /\ (ex_pc = "returned" /\ Len(matches) = 3 /\ Len(names) = 2
              /\ ex_returned = 3) =>
                 DOMAIN output_dir = {names[1], names[2], "embryo_03.jpg"}

\* C12 witness: a report with 3 payloads and the 2 names listed in it, all
\* written: the directory holds the 2 named files and embryo_03.jpg.
C12_Witness ==
    /\ ex_pc = "returned"
    /\ Len(matches) = 3
    /\ filenames = <<"D5_368.jpg", "D3_101.jpg">>
    /\ ex_returned = 3
    /\ DOMAIN output_dir = {"D5_368.jpg", "D3_101.jpg", "embryo_03.jpg"}
    /\ output_dir["embryo_03.jpg"] = <<255, 216, 255, 224>>

\* C13: a payload that fails to decode or to be written is skipped and the
\* loop goes on: when the call returns every payload has been handled, each
\* one written carries the name of its own position whatever failed before
\* it, and the value returned is the number of payloads decoded and written.
C13_FailuresAreSkipped ==
    /\ saved_count = Cardinality(SavedPositions)
    /\ \A i \in SavedPositions :
          saved[i].filename =
             IF i <= Len(unique_filenames) THEN unique_filenames[i]
             ELSE Placeholder(i)
    /\ ex_pc = "returned" =>
          /\ Len(saved) = Len(matches)
          /\ ex_returned = Cardinality(SavedPositions)

\* C13 witness: the first payload does not decode, the second cannot be
\* opened for writing, the third is written as embryo_03.jpg; 1 is returned.
C13_Witness ==
    /\ ex_pc = "returned"
    /\ Len(saved) = 3
    /\ saved[1].outcome = "decode_error"
    /\ saved[2].outcome = "open_error"
    /\ saved[3] = [outcome |-> "saved", filename |-> "embryo_03.jpg"]
    /\ unique_filenames = <<"D5_368.jpg", "D3_101.jpg">>
    /\ ex_returned = 1

\* C15: regrade_embryos amends the shared rubric for its pass only: while it
\* runs the rubric is the improved sections, an empty line and the text of
\* before the call, and every request of the pass carries it; whenever no
\* regrade is running the rubric is the module's text again, however many
\* regrades have returned, and the requests of an ordinary pass carry that.
C15_RubricAmendedForThePassOnly ==
    /\ rg_pc = "regrading" =>
          /\ original_prompt = RubricText
          /\ GARDNER_SCALE_PROMPT = ig_improved_prompt \o "\n\n" \o RubricText
          /\ \A i \in 1..Len(requests) :
                requests[i].prompt = ig_improved_prompt \o "\n\n" \o RubricText
    /\ rg_pc = "idle" => GARDNER_SCALE_PROMPT = RubricText
    /\ (rg_pc = "idle" /\ gd_pc = "grading") =>
          \A i \in 1..Len(requests) : requests[i].prompt = RubricText

\* C15 witness: a regrade over two images has returned: both requests of its
\* pass carried the amended text and the rubric is the module's text again.
C15_Witness ==
    /\ rg_pc = "idle"
    /\ gd_returned.done
    /\ Len(gd_returned.value) = 2
    /\ Len(requests) = 2
    /\ \A i \in 1..2 :
          requests[i].prompt = ExpansionParagraph \o "\n" \o TeParagraph \o "\n\n" \o RubricText
    /\ GARDNER_SCALE_PROMPT = RubricText

EmbryoGraderInit ==
    /\ GARDNER_SCALE_PROMPT = RubricText
    /\ results = <<>>
    /\ image_files = <<>>
    /\ world = <<>>
    /\ requests = <<>>
    /\ gd_pc = "idle"
    /\ gd_idx = 0
    /\ gd_exc = ""
    /\ gd_returned = [done |-> FALSE, value |-> <<>>]

Init ==
    FeedbackAnalyzerInit /\ EmbryoGraderInit /\ ImprovedGraderInit /\ ExtractorInit

\* the feedback analysis flow
SpecAnalyzer == Init /\ [][FeedbackAnalyzerNext]_vars

\* the feedback analysis flow with its report
SpecReport == Init /\ [][ReportNext]_vars

\* the grading flow, next to an analyzer that is not used
GraderInit ==
    /\ Init
    /\ feedback_file = NoFile

SpecGrader == GraderInit /\ [][EmbryoGraderNext]_vars

\* grading and regrading, next to an analyzer that is not used
SpecRegrade == GraderInit /\ [][RegradeNext]_vars

\* the extraction script, next to an analyzer and a grader that are not used
SpecExtractor == GraderInit /\ [][ExtractorNext]_vars

====
